---------------------------- MODULE Spec2Model ----------------------------
(***************************************************************************)
(* Model of GodotConnection (src/src/godot_connection.ts): the WebSocket   *)
(* connection manager with its pending-command table, its connect/retry    *)
(* loop, its per-command timeouts and its socket event handlers.           *)
(*                                                                         *)
(* Time is counted in units of 5000 ms.  Every armed timer holds the       *)
(* number of units left before it is due; Tick lets one unit pass and is   *)
(* disabled while a timer is due, as the event loop runs a due timer       *)
(* before any later one.                                                   *)
(*                                                                         *)
(* One action is one event-loop task: a caller's synchronous call, a       *)
(* socket event handler or a timer callback, together with the promise     *)
(* continuations (microtasks) it releases inside the manager.              *)
(***************************************************************************)
EXTENDS Integers, FiniteSets, Sequences, TLC

(***************************************************************************)
(* Bounds of the model and configuration of the manager.                   *)
(***************************************************************************)
MaxCalls == 2
MaxSockets == 4

\* constructor parameters (lines 46-51), in units of 5000 ms where a time:
\* the manager is configured with one retry after a delay of one unit
maxRetries == 1
retryDelay == 1
\* the default command timeout, 10000 ms
timeout == 2
\* the attempt window of tryConnect: setTimeout(..., 5000)
ConnectionTimeout == 1

Calls == 1..MaxCalls
Sockets == 1..MaxSockets
CommandIds == 0..(MaxCalls - 1)
NULL == 0
NoTimer == -1
NoCommand == -1

VARIABLES
    ws,            \* this.ws: the current socket, or NULL
    connected,     \* this.connected
    commandQueue,  \* this.commandQueue: commandId -> the call whose resolve/reject it holds
    commandId,     \* this.commandId: the next identifier
    cmdTimer,      \* the timeoutId of each command: units left, or NoTimer
    sockets,       \* every socket created so far: its readyState, its connectionTimeout
                   \* and the call that awaits the promise of its tryConnect
    nSock,         \* number of sockets created so far
    calls,         \* the connect() and sendCommand() calls made by callers
    written,       \* envelopes written: <<socket, commandId>>, and <<socket, Ping>>
    removals,      \* number of times each identifier was removed from commandQueue
    last,          \* the last handler that ran (observation only; Unobserved = off)
    \* the tool server (src/src/index.ts and its JavaScript variant src/unnamed/part_000)
    variant,       \* which of the two variants of the tool server runs: "ts" or "js"
    godotSocket,   \* godotSocket: the server's socket, or NULL
    socketReady,   \* socketReady
    fsockets,      \* readyState of every socket the tool server created
    nFSock,        \* number of sockets the tool server created
    reconnectTimer,\* setTimeout(connectToGodot, 5000) of the close handler: units left
    toolCalls,     \* the tool calls made on the server
    sentLog        \* the commands written to a socket, in the order written

facadeVars == <<variant, godotSocket, socketReady, fsockets, nFSock, reconnectTimer,
                toolCalls, sentLog>>

managerVars == <<ws, connected, commandQueue, commandId, cmdTimer, sockets, nSock,
                 calls, written, removals, last>>

vars == <<ws, connected, commandQueue, commandId, cmdTimer, sockets, nSock,
          calls, written, removals, last, facadeVars>>

\* readyState of a socket.  CLOSING is a socket in the closing handshake,
\* on which data may still arrive; TERMINATED is a socket destroyed by
\* terminate(), whose readyState is CLOSING too until its close event.
\* awaiter is the call that awaits the promise of the attempt (0 once the
\* promise is settled, when resolve and reject do nothing more).
NoSocket == [state |-> "NONE", awaiter |-> 0, timer |-> NoTimer]

ClosedSocket == [state |-> "CLOSED", awaiter |-> 0, timer |-> NoTimer]

NoCall == [kind |-> "none", pc |-> "idle", retries |-> 0, attempts |-> 0,
           delay |-> NoTimer, cmd |-> NoCommand, elapsed |-> 0,
           outcome |-> "none", value |-> "", settles |-> 0]

Ping == -2

Event(o, i, st, b) == [op |-> o, id |-> i, status |-> st, body |-> b]

Unobserved == Event("unobserved", NoCommand, "", "")

Other == Event("other", NoCommand, "", "")

Observe(v) == IF last = Unobserved THEN Unobserved ELSE v

InitManager ==
    /\ ws = NULL
    /\ connected = FALSE
    /\ commandQueue = <<>>
    /\ commandId = 0
    /\ cmdTimer = [i \in CommandIds |-> NoTimer]
    /\ sockets = [s \in Sockets |-> NoSocket]
    /\ nSock = 0
    /\ calls = [c \in Calls |-> NoCall]
    /\ written = {}
    /\ removals = [i \in CommandIds |-> 0]

\* the tool server before it is started; it takes no step in Spec and SpecObserved
MaxTools == 2
MaxFSockets == 2
ToolCalls == 1..MaxTools
FSockets == 1..MaxFSockets

\* what a handler returns: the isError flag and the parts of its text (the
\* status phrase, the message of the error, the step the text names (0: none)
\* and the commands it describes)
NoResult == [isError |-> FALSE, status |-> "", message |-> "", step |-> 0, commands |-> <<>>]

\* a tool call: its input (text or steps), the step of the sequence it is at,
\* its delay timer and the time it has waited since it last wrote, the
\* results array of a sequence, whether sendToGodot threw and at which step,
\* and how the handler ended (returned a result, or threw)
NoTool == [kind |-> "none", pc |-> "idle", text |-> <<>>, steps |-> <<>>, step |-> 0,
           timer |-> NoTimer, waited |-> 0, results |-> <<>>, threw |-> FALSE,
           failedStep |-> 0, ended |-> "no", result |-> NoResult]

FacadeNotStarted ==
    /\ variant = "ts"
    /\ godotSocket = NULL
    /\ socketReady = FALSE
    /\ fsockets = [s \in FSockets |-> "NONE"]
    /\ nFSock = 0
    /\ reconnectTimer = NoTimer
    /\ toolCalls = [t \in ToolCalls |-> NoTool]
    /\ sentLog = <<>>

Init == InitManager /\ last = Unobserved /\ FacadeNotStarted

InitObserved == InitManager /\ last = Other /\ FacadeNotStarted

(***************************************************************************)
(* Map operations of commandQueue.                                         *)
(***************************************************************************)
MapSet(q, k, v) == [x \in (DOMAIN q) \cup {k} |-> IF x = k THEN v ELSE q[x]]

\* a delete that leaves the entry in the table
MapDeleteKeeps(q, k) == q

MapDelete(q, k) == [x \in (DOMAIN q) \ {k} |-> q[x]]

MapClear(q) == [x \in {} |-> 0]

\* the calls whose resolve/reject the table holds
Queued(q) == {q[k] : k \in DOMAIN q}

(***************************************************************************)
(* The ws library: terminate() on a socket, and readyState === OPEN.       *)
(***************************************************************************)
Terminate(st) == IF st \in {"NONE", "CLOSED"} THEN st ELSE "TERMINATED"

IsOpen(scks, w) == w # NULL /\ scks[w].state = "OPEN"

(***************************************************************************)
(* Settlement of the promise a call returned: the first resolve or reject  *)
(* decides the outcome; every invocation is counted.  The locals of the    *)
(* call end with it; elapsed is kept for a request that timed out (the     *)
(* time it had been outstanding).                                          *)
(***************************************************************************)
Settle(cr, o, v) ==
    IF cr.settles = 0
    THEN [cr EXCEPT !.pc = "done", !.outcome = o, !.value = v, !.settles = 1,
                    !.elapsed = IF o = "Timeout" THEN @ ELSE 0, !.retries = 0]
    ELSE [cr EXCEPT !.settles = @ + 1]

\* commandQueue.forEach(command => { clearTimeout; reject("Connection closed") })
RejectAll(cs, q) ==
    [c \in Calls |-> IF c \in Queued(q)
                     THEN Settle(cs[c], "ConnectionLost", "Connection closed")
                     ELSE cs[c]]

\* the purge rejects the entries and leaves their timers armed
ClearTimersKeeps(tm, q) == tm

ClearTimers(tm, q) == [i \in CommandIds |-> IF i \in DOMAIN q THEN NoTimer ELSE tm[i]]

CountRemovals(rm, q) == [i \in CommandIds |-> IF i \in DOMAIN q THEN rm[i] + 1 ELSE rm[i]]

(***************************************************************************)
(* Sockets the running connect() calls may still create; a call starts a   *)
(* connect loop only while MaxSockets leaves room for all its attempts.    *)
(***************************************************************************)
TimerArmedFor(c) == \E s \in Sockets : sockets[s].awaiter = c /\ sockets[s].timer # NoTimer

Need(c) ==
    CASE calls[c].pc = "attempt" ->
            IF TimerArmedFor(c) THEN maxRetries - calls[c].retries ELSE 0
      [] calls[c].pc = "delay" -> maxRetries - calls[c].retries + 1
      [] OTHER -> 0

RECURSIVE SumNeed(_)
SumNeed(S) == IF S = {} THEN 0
              ELSE LET c == CHOOSE x \in S : TRUE IN Need(c) + SumNeed(S \ {c})

CanConnect == nSock + SumNeed(Calls) + maxRetries + 1 <= MaxSockets

\* calls are made in the order of their numbers
MayStart(c) == calls[c].pc = "idle" /\ (IF c = 1 THEN TRUE ELSE calls[c - 1].kind # "none")

(***************************************************************************)
(* tryConnect (lines 63-151): a new socket replaces this.ws and the        *)
(* attempt timer is armed.                                                 *)
(***************************************************************************)
TryConnect(c, k) ==
    LET s == nSock + 1 IN
    /\ nSock < MaxSockets
    /\ nSock' = s
    /\ ws' = s
    /\ sockets' = [sockets EXCEPT ![s] = [state |-> "CONNECTING", awaiter |-> c,
                                         timer |-> ConnectionTimeout]]
    /\ calls' = [calls EXCEPT ![c].kind = k, ![c].pc = "attempt",
                              ![c].attempts = @ + 1, ![c].delay = NoTimer]

(***************************************************************************)
(* The promise executor of sendCommand (lines 205-240), run with the       *)
(* calls as cs, the envelopes written so far as wr, and                    *)
(* wsOpen = (this.ws?.readyState === WebSocket.OPEN).                      *)
(***************************************************************************)
\* the counter is read but not advanced
SameCommandId(n) == n

NextCommandId(n) == n + 1

\* the timer is armed with the attempt window instead of this.timeout
AttemptWindowDuration == ConnectionTimeout

CommandTimerDuration == timeout

Register(c, cs, wsOpen, wr) ==
    LET id == commandId IN
    /\ commandId' = NextCommandId(commandId)
    /\ IF wsOpen
       THEN /\ commandQueue' = MapSet(commandQueue, id, c)
            /\ cmdTimer' = [cmdTimer EXCEPT ![id] = CommandTimerDuration]
            /\ written' = wr \cup {<<ws, id>>}
            /\ removals' = removals
            /\ calls' = [cs EXCEPT ![c].kind = "send", ![c].pc = "pending",
                                   ![c].cmd = id, ![c].elapsed = 0,
                                   ![c].retries = 0, ![c].attempts = 0]
       ELSE /\ commandQueue' = MapDelete(MapSet(commandQueue, id, c), id)
            /\ cmdTimer' = [cmdTimer EXCEPT ![id] = NoTimer]
            /\ written' = wr
            /\ removals' = [removals EXCEPT ![id] = @ + 1]
            /\ calls' = [cs EXCEPT ![c] =
                            Settle([@ EXCEPT !.kind = "send", !.cmd = id, !.attempts = 0],
                                   "NotConnected", "WebSocket not connected")]

(***************************************************************************)
(* connect() (lines 58-173), called directly.                              *)
(***************************************************************************)
Connect(c) ==
    /\ MayStart(c)
    /\ IF connected
       THEN /\ calls' = [calls EXCEPT ![c] = Settle([@ EXCEPT !.kind = "connect"],
                                                   "Connected", "")]
            /\ UNCHANGED <<ws, sockets, nSock>>
       ELSE /\ CanConnect
            /\ TryConnect(c, "connect")
    /\ last' = Observe(Other)
    /\ UNCHANGED facadeVars
    /\ UNCHANGED <<connected, commandQueue, commandId, cmdTimer, written, removals>>

(***************************************************************************)
(* sendCommand (lines 191-241).  It runs connect() first when this.ws is   *)
(* null or this.connected is false (line 196); connect() returns at once   *)
(* when this.connected holds (line 59), and the executor then runs before  *)
(* any other task.                                                         *)
(***************************************************************************)
SendCommand(c) ==
    /\ MayStart(c)
    /\ IF (ws = NULL \/ ~connected) /\ ~connected
       THEN /\ CanConnect
            /\ TryConnect(c, "send")
            /\ UNCHANGED <<commandQueue, commandId, cmdTimer, written, removals>>
       ELSE /\ Register(c, calls, IsOpen(sockets, ws), written)
            /\ UNCHANGED <<ws, sockets, nSock>>
    /\ last' = Observe(Other)
    /\ UNCHANGED facadeVars
    /\ UNCHANGED connected

(***************************************************************************)
(* The "open" handler (lines 82-90) of socket s, and the continuation of   *)
(* the connect() call that awaits this attempt.                            *)
(***************************************************************************)
SocketOpen(s) ==
    /\ sockets[s].state = "CONNECTING"
    /\ connected' = TRUE
    /\ LET so == [sockets EXCEPT ![s] = [state |-> "OPEN", awaiter |-> 0,
                                        timer |-> NoTimer]]
           c == sockets[s].awaiter
           \* sendPing (lines 178-182) writes to this.ws
           wr == IF IsOpen(so, ws) THEN written \cup {<<ws, Ping>>} ELSE written
       IN  /\ sockets' = so
           /\ IF c # 0
              THEN IF calls[c].kind = "send"
                   THEN Register(c, calls, IsOpen(so, ws), wr)
                   ELSE /\ calls' = [calls EXCEPT ![c] =
                                        Settle([@ EXCEPT !.attempts = 0], "Connected", "")]
                        /\ written' = wr
                        /\ UNCHANGED <<commandQueue, commandId, cmdTimer, removals>>
              ELSE /\ written' = wr
                   /\ UNCHANGED <<calls, commandQueue, commandId, cmdTimer, removals>>
    /\ last' = Observe(Other)
    /\ UNCHANGED facadeVars
    /\ UNCHANGED <<ws, nSock>>

(***************************************************************************)
(* The peer's close frame or the end of the stream: the library sets       *)
(* readyState to CLOSING before it emits "close"; no handler runs.         *)
(***************************************************************************)
PeerClosing(s) ==
    /\ sockets[s].state = "OPEN"
    /\ sockets' = [sockets EXCEPT ![s].state = "CLOSING"]
    /\ last' = Observe(Other)
    /\ UNCHANGED facadeVars
    /\ UNCHANGED <<ws, connected, commandQueue, commandId, cmdTimer, nSock, calls,
                   written, removals>>

(***************************************************************************)
(* The "close" handler (lines 134-149) of socket s; a socket that fails    *)
(* to connect emits "error" (lines 128-132, logging only) and "close".     *)
(* The handler settles no tryConnect promise: a call that awaits the       *)
(* attempt of s keeps waiting.                                             *)
(***************************************************************************)
CloseHandlerConnected(was) == FALSE

SocketClose(s) ==
    /\ sockets[s].state \in {"CONNECTING", "OPEN", "CLOSING", "TERMINATED"}
    /\ sockets' = [sockets EXCEPT ![s] = ClosedSocket]
    /\ connected' = CloseHandlerConnected(connected)
    /\ calls' = RejectAll(calls, commandQueue)
    /\ cmdTimer' = ClearTimers(cmdTimer, commandQueue)
    /\ removals' = CountRemovals(removals, commandQueue)
    /\ commandQueue' = MapClear(commandQueue)
    /\ last' = Observe(Other)
    /\ UNCHANGED facadeVars
    /\ UNCHANGED <<ws, commandId, nSock, written>>

(***************************************************************************)
(* Incoming data and the "message" handler (lines 92-126).                 *)
(***************************************************************************)
NoId == -1

\* what the peer may send: text that JSON.parse rejects, or a JSON object
\* with or without a commandId; body is its result or its message
\* (a text that does not parse may still hold the characters of an identifier)
Incoming ==
    {[json |-> FALSE, commandId |-> NoId, status |-> "success", body |-> ""],
     [json |-> FALSE, commandId |-> 0, status |-> "success", body |-> "b"],
     [json |-> TRUE, commandId |-> NoId, status |-> "success", body |-> ""]}
    \cup [json : {TRUE}, commandId : 0..MaxCalls, status : {"success"}, body : {"b"}]
    \cup [json : {TRUE}, commandId : 0..MaxCalls, status : {"error"}, body : {"", "b"}]

\* the identifier is looked up although the payload did not parse
MatchesUnparsed(m, q) == m.commandId # NoId /\ m.commandId \in DOMAIN q

Matches(m, q) == m.json /\ m.commandId # NoId /\ m.commandId \in DOMAIN q

MessageKind(m, q) ==
    IF ~m.json THEN "malformed"
    ELSE IF m.commandId = NoId THEN "noId"
    ELSE IF m.commandId \in DOMAIN q THEN "matched" ELSE "unmatched"

\* what is observed of a dispatch: the kind of the payload, the identifier
\* a parsed payload bears, and the status and body of a matching response
MessageEvent(m, q) ==
    Event(MessageKind(m, q),
          IF m.json THEN m.commandId ELSE NoCommand,
          IF Matches(m, q) THEN m.status ELSE "",
          IF Matches(m, q) THEN m.body ELSE "")

\* the status field is not read
AlwaysSuccess(m) == "Success"

\* resolve(response.result) or reject(new Error(response.message || "Unknown error"))
ResponseOutcome(m) == IF m.status = "success" THEN "Success" ELSE "RemoteError"

ResponseValue(m) ==
    IF m.status = "success" THEN m.body
    ELSE IF m.body = "" THEN "Unknown error" ELSE m.body

OnMessage(s, m) ==
    /\ sockets[s].state \in {"OPEN", "CLOSING"}
    /\ IF Matches(m, commandQueue)
       THEN LET id == m.commandId
                c == commandQueue[id]
            IN  /\ cmdTimer' = [cmdTimer EXCEPT ![id] = NoTimer]
                /\ commandQueue' = MapDelete(commandQueue, id)
                /\ removals' = [removals EXCEPT ![id] = @ + 1]
                /\ calls' = [calls EXCEPT ![c] = Settle(@, ResponseOutcome(m),
                                                        ResponseValue(m))]
       ELSE UNCHANGED <<cmdTimer, commandQueue, removals, calls>>
    /\ last' = Observe(MessageEvent(m, commandQueue))
    /\ UNCHANGED facadeVars
    /\ UNCHANGED <<ws, connected, commandId, sockets, nSock, written>>

(***************************************************************************)
(* The connectionTimeout callback (lines 72-80) of the attempt that        *)
(* created socket s, and the catch block of the retry loop (158-171).      *)
(***************************************************************************)
\* the error of connect() is swallowed and the executor runs without a socket
AttemptFailedSwallowed(cr) ==
    LET r == cr.retries + 1 IN
    IF r <= maxRetries
    THEN [cr EXCEPT !.retries = r, !.pc = "delay", !.delay = retryDelay]
    ELSE Settle(cr, "NotConnected", "WebSocket not connected")

AttemptFailed(cr) ==
    LET r == cr.retries + 1 IN
    IF r <= maxRetries
    THEN [cr EXCEPT !.retries = r, !.pc = "delay", !.delay = retryDelay]
    ELSE Settle(cr, "ConnectionFailed", "Connection timeout")

ConnectionTimeoutFires(s) ==
    /\ sockets[s].timer = 0
    /\ IF ~IsOpen(sockets, ws)
       THEN /\ sockets' = [x \in Sockets |->
                            [sockets[x] EXCEPT
                               !.timer = IF x = s THEN NoTimer ELSE @,
                               !.awaiter = IF x = s THEN 0 ELSE @,
                               !.state = IF x = ws THEN Terminate(@) ELSE @]]
            /\ ws' = NULL
            /\ calls' = IF sockets[s].awaiter # 0
                        THEN [calls EXCEPT ![sockets[s].awaiter] = AttemptFailed(@)]
                        ELSE calls
       ELSE /\ sockets' = [sockets EXCEPT ![s].timer = NoTimer]
            /\ UNCHANGED <<ws, calls>>
    /\ last' = Observe(Other)
    /\ UNCHANGED facadeVars
    /\ UNCHANGED <<connected, commandQueue, commandId, cmdTimer, nSock, written, removals>>

(***************************************************************************)
(* The inter-attempt delay (line 165) ends: the loop runs tryConnect again.*)
(***************************************************************************)
RetryDelayFires(c) ==
    /\ calls[c].pc = "delay"
    /\ calls[c].delay = 0
    /\ TryConnect(c, calls[c].kind)
    /\ last' = Observe(Other)
    /\ UNCHANGED facadeVars
    /\ UNCHANGED <<connected, commandQueue, commandId, cmdTimer, written, removals>>

(***************************************************************************)
(* The timeout callback of a command (lines 218-223).                      *)
(***************************************************************************)
\* the timeout callback rejects and leaves the entry in the table
TimeoutKeeps(q, id) == q

TimeoutRemoves(q, id) == MapDelete(q, id)

CommandTimeoutFires(id) ==
    /\ cmdTimer[id] = 0
    /\ cmdTimer' = [cmdTimer EXCEPT ![id] = NoTimer]
    /\ IF id \in DOMAIN commandQueue
       THEN /\ commandQueue' = TimeoutRemoves(commandQueue, id)
            /\ removals' = [removals EXCEPT ![id] = @ + 1]
            /\ calls' = [calls EXCEPT ![commandQueue[id]] =
                            Settle(@, "Timeout", "Command timed out")]
       ELSE UNCHANGED <<commandQueue, removals, calls>>
    /\ last' = Observe(Other)
    /\ UNCHANGED facadeVars
    /\ UNCHANGED <<ws, connected, commandId, sockets, nSock, written>>

(***************************************************************************)
(* disconnect() (lines 274-293).                                           *)
(***************************************************************************)
DisconnectGuard == ws # NULL

Disconnect ==
    /\ IF DisconnectGuard
       THEN /\ calls' = RejectAll(calls, commandQueue)
            /\ cmdTimer' = ClearTimers(cmdTimer, commandQueue)
            /\ removals' = CountRemovals(removals, commandQueue)
            /\ commandQueue' = MapClear(commandQueue)
            /\ sockets' = [sockets EXCEPT ![ws].state =
                              IF @ = "OPEN" THEN "CLOSING" ELSE Terminate(@)]
            /\ ws' = NULL
            /\ connected' = FALSE
       ELSE UNCHANGED <<calls, cmdTimer, removals, commandQueue, sockets, ws, connected>>
    /\ last' = Observe(Event("disconnect", NoCommand, "", ""))
    /\ UNCHANGED facadeVars
    /\ UNCHANGED <<commandId, nSock, written>>

(***************************************************************************)
(* isConnected() (lines 298-300) and getStatus() (lines 305-311): the      *)
(* snapshot returned is observed as connected/disconnected and the size of *)
(* commandQueue.                                                           *)
(***************************************************************************)
\* readyState is not looked at
ConnectedFlagOnly == connected

IsConnected == connected /\ IsOpen(sockets, ws)

PendingCommands == Cardinality(DOMAIN commandQueue)

GetStatus ==
    /\ last' = Observe(Event("getStatus", PendingCommands,
                             IF IsConnected THEN "connected" ELSE "disconnected", ""))
    /\ UNCHANGED facadeVars
    /\ UNCHANGED <<ws, connected, commandQueue, commandId, cmdTimer, sockets, nSock, calls,
                   written, removals>>

(***************************************************************************)
(* One unit of time passes; a due timer runs first.                        *)
(***************************************************************************)
Armed == {sockets[s].timer : s \in Sockets} \cup {calls[c].delay : c \in Calls}
         \cup {cmdTimer[i] : i \in CommandIds}

Pass(t) == IF t = NoTimer THEN NoTimer ELSE t - 1

Tick ==
    /\ 0 \notin Armed
    /\ Armed # {NoTimer}
    /\ sockets' = [s \in Sockets |-> [sockets[s] EXCEPT !.timer = Pass(@)]]
    /\ cmdTimer' = [i \in CommandIds |-> Pass(cmdTimer[i])]
    /\ calls' = [c \in Calls |->
                   [calls[c] EXCEPT !.delay = Pass(@),
                                    !.elapsed = IF calls[c].pc = "pending" THEN @ + 1 ELSE @]]
    /\ last' = Observe(Other)
    /\ UNCHANGED facadeVars
    /\ UNCHANGED <<ws, connected, commandQueue, commandId, nSock, written, removals>>

Next ==
    \/ \E c \in Calls : Connect(c)
    \/ \E c \in Calls : SendCommand(c)
    \/ \E s \in Sockets : SocketOpen(s)
    \/ \E s \in Sockets : PeerClosing(s)
    \/ \E s \in Sockets : SocketClose(s)
    \/ \E s \in Sockets, m \in Incoming : OnMessage(s, m)
    \/ \E s \in Sockets : ConnectionTimeoutFires(s)
    \/ \E c \in Calls : RetryDelayFires(c)
    \/ \E i \in CommandIds : CommandTimeoutFires(i)
    \/ Disconnect
    \/ GetStatus
    \/ Tick

Spec == Init /\ [][Next]_vars

SpecObserved == InitObserved /\ [][Next]_vars

(***************************************************************************)
(* The tool server: src/src/index.ts (variant "ts") and its JavaScript       *)
(* variant src/unnamed/part_000 (variant "js").  Line numbers are those of  *)
(* index.ts unless part_000 is named.  Text is a sequence of characters.    *)
(***************************************************************************)
ANIMATIONS ==
    <<<<"i", "d", "l", "e">>,
      <<"w", "a", "v", "e">>,
      <<"j", "u", "m", "p">>,
      <<"w", "a", "l", "k">>,
      <<"r", "u", "n">>,
      <<"d", "a", "n", "c", "e">>,
      <<"s", "i", "t">>,
      <<"s", "t", "a", "n", "d">>,
      <<"n", "o", "d">>,
      <<"s", "h", "a", "k", "e", "_", "h", "e", "a", "d">>,
      <<"l", "a", "u", "g", "h">>,
      <<"t", "h", "i", "n", "k">>,
      <<"p", "o", "i", "n", "t">>,
      <<"c", "l", "a", "p">>,
      <<"b", "o", "w">>>>

\* emotionMap, in the order of Object.entries
emotionMap ==
    <<[emotion |-> <<"h", "a", "p", "p", "y">>,
       keywords |-> <<<<"h", "a", "p", "p", "y">>,
                      <<"j", "o", "y">>,
                      <<"g", "l", "a", "d">>,
                      <<"p", "l", "e", "a", "s", "e", "d">>,
                      <<"d", "e", "l", "i", "g", "h", "t", "e", "d">>,
                      <<"c", "h", "e", "e", "r", "f", "u", "l">>>>],
      [emotion |-> <<"s", "a", "d">>,
       keywords |-> <<<<"s", "a", "d">>,
                      <<"u", "n", "h", "a", "p", "p", "y">>,
                      <<"d", "o", "w", "n">>,
                      <<"d", "e", "p", "r", "e", "s", "s", "e", "d">>,
                      <<"b", "l", "u", "e">>>>],
      [emotion |-> <<"a", "n", "g", "r", "y">>,
       keywords |-> <<<<"a", "n", "g", "r", "y">>,
                      <<"m", "a", "d">>,
                      <<"f", "u", "r", "i", "o", "u", "s">>,
                      <<"a", "n", "n", "o", "y", "e", "d">>,
                      <<"i", "r", "r", "i", "t", "a", "t", "e", "d">>>>],
      [emotion |-> <<"s", "u", "r", "p", "r", "i", "s", "e", "d">>,
       keywords |-> <<<<"s", "u", "r", "p", "r", "i", "s", "e", "d">>,
                      <<"s", "h", "o", "c", "k", "e", "d">>,
                      <<"a", "m", "a", "z", "e", "d">>,
                      <<"a", "s", "t", "o", "n", "i", "s", "h", "e", "d">>>>],
      [emotion |-> <<"c", "o", "n", "f", "u", "s", "e", "d">>,
       keywords |-> <<<<"c", "o", "n", "f", "u", "s", "e", "d">>,
                      <<"p", "u", "z", "z", "l", "e", "d">>,
                      <<"p", "e", "r", "p", "l", "e", "x", "e", "d">>,
                      <<"b", "e", "w", "i", "l", "d", "e", "r", "e", "d">>>>],
      [emotion |-> <<"e", "x", "c", "i", "t", "e", "d">>,
       keywords |-> <<<<"e", "x", "c", "i", "t", "e", "d">>,
                      <<"t", "h", "r", "i", "l", "l", "e", "d">>,
                      <<"e", "n", "t", "h", "u", "s", "i", "a", "s", "t", "i", "c">>>>],
      [emotion |-> <<"s", "h", "y">>,
       keywords |-> <<<<"s", "h", "y">>,
                      <<"b", "a", "s", "h", "f", "u", "l">>,
                      <<"t", "i", "m", "i", "d">>,
                      <<"n", "e", "r", "v", "o", "u", "s">>>>],
      [emotion |-> <<"c", "o", "n", "f", "i", "d", "e", "n", "t">>,
       keywords |-> <<<<"c", "o", "n", "f", "i", "d", "e", "n", "t">>,
                      <<"s", "u", "r", "e">>,
                      <<"c", "e", "r", "t", "a", "i", "n">>,
                      <<"b", "o", "l", "d">>>>]>>

Idle == <<"i", "d", "l", "e">>

Neutral == <<"n", "e", "u", "t", "r", "a", "l">>

User == <<"u", "s", "e", "r">>

Away == <<"a", "w", "a", "y">>

Down == <<"d", "o", "w", "n">>

Up == <<"u", "p">>

LookAway == <<"l", "o", "o", "k", " ", "a", "w", "a", "y">>

DontLook == <<"d", "o", "n", "'", "t", " ", "l", "o", "o", "k">>

LookDown == <<"l", "o", "o", "k", " ", "d", "o", "w", "n">>

LookUp == <<"l", "o", "o", "k", " ", "u", "p">>

UpperCase == <<"A", "B", "C", "D", "E", "F", "G", "H", "I", "J", "K", "L", "M", "N", "O", "P", "Q", "R", "S", "T", "U", "V", "W", "X", "Y", "Z">>

LowerCase == <<"a", "b", "c", "d", "e", "f", "g", "h", "i", "j", "k", "l", "m", "n", "o", "p", "q", "r", "s", "t", "u", "v", "w", "x", "y", "z">>

EMOTIONS ==
    <<<<"n", "e", "u", "t", "r", "a", "l">>,
      <<"h", "a", "p", "p", "y">>,
      <<"s", "a", "d">>,
      <<"a", "n", "g", "r", "y">>,
      <<"s", "u", "r", "p", "r", "i", "s", "e", "d">>,
      <<"c", "o", "n", "f", "u", "s", "e", "d">>,
      <<"e", "x", "c", "i", "t", "e", "d">>,
      <<"b", "o", "r", "e", "d">>,
      <<"s", "h", "y">>,
      <<"c", "o", "n", "f", "i", "d", "e", "n", "t">>>>

LOOK_TARGETS ==
    <<<<"u", "s", "e", "r">>,
      <<"a", "w", "a", "y">>,
      <<"d", "o", "w", "n">>,
      <<"u", "p">>,
      <<"l", "e", "f", "t">>,
      <<"r", "i", "g", "h", "t">>>>

\* String.prototype.toLowerCase, on the letters A-Z
ToLowerCase(text) ==
    [i \in 1..Len(text) |->
        IF \E j \in 1..Len(UpperCase) : UpperCase[j] = text[i]
        THEN LowerCase[CHOOSE j \in 1..Len(UpperCase) : UpperCase[j] = text[i]]
        ELSE text[i]]

\* String.prototype.includes
Includes(text, word) ==
    \E i \in 0..(Len(text) - Len(word)) : SubSeq(text, i + 1, i + Len(word)) = word

\* the loop has no break: the last element that satisfies the test wins
Last(hits) == CHOOSE i \in hits : \A j \in hits : i >= j

\* the index of the first element of a list that satisfies a test
First(hits) == CHOOSE i \in hits : \A j \in hits : i <= j

\* parseIntent (lines 118-161; part_000 lines 85-128)
ParseIntent(text) ==
    LET lower == ToLowerCase(text)
        anims == {i \in 1..Len(ANIMATIONS) : Includes(lower, ANIMATIONS[i])}
        emos == {i \in 1..Len(emotionMap) :
                    \E k \in 1..Len(emotionMap[i].keywords) :
                        Includes(lower, emotionMap[i].keywords[k])}
    IN  [clip |-> IF anims = {} THEN Idle ELSE ANIMATIONS[First(anims)],
         emotion |-> IF emos = {} THEN Neutral ELSE emotionMap[First(emos)].emotion,
         lookAt |-> IF Includes(lower, LookAway) \/ Includes(lower, DontLook) THEN Away
                    ELSE IF Includes(lower, LookDown) THEN Down
                    ELSE IF Includes(lower, LookUp) THEN Up
                    ELSE User]

TextWave ==
    <<"W", "a", "v", "e", " ", "h", "a", "p", "p", "i", "l", "y", " ", "a", "t", " ", "t", "h", "e", " ", "u", "s", "e", "r">>

TextStanding ==
    <<"j", "u", "s", "t", " ", "s", "t", "a", "n", "d", "i", "n", "g", " ", "a", "r", "o", "u", "n", "d">>

TextShy ==
    <<"d", "o", "n", "'", "t", " ", "l", "o", "o", "k", " ", "a", "t", " ", "m", "e", ",", " ", "I", "'", "m", " ", "s", "h", "y">>

TextDance ==
    <<"L", "o", "o", "k", " ", "U", "P", " ", "a", "n", "d", " ", "d", "a", "n", "c", "e", ",", " ", "s", "o", " ", "g", "l", "a", "d">>

TextMixed ==
    <<"R", "u", "n", " ", "o", "r", " ", "w", "a", "l", "k", ",", " ", "s", "a", "d", " ", "b", "u", "t", " ", "h", "a", "p", "p", "y", ":", " ", "l", "o", "o", "k", " ", "u", "p", ",", " ", "l", "o", "o", "k", " ", "d", "o", "w", "n">>

\* the texts given to animate_from_text
Texts == {TextWave, TextStanding, TextShy, TextDance, TextMixed}

\* the inputs of the tools: commands, and sequences of steps with the delay
\* before each step in units of time (0: no delay); an absent emotion or
\* lookAt is the empty text
Command(c, e, l) == [clip |-> c, emotion |-> e, lookAt |-> l]

Step(c, e, l, d) == [clip |-> c, emotion |-> e, lookAt |-> l, delay |-> d]

Commands == {Command(ANIMATIONS[2], emotionMap[1].emotion, User)}

Sequences ==
    {<<Step(ANIMATIONS[2], <<>>, <<>>, 0), Step(ANIMATIONS[3], <<>>, <<>>, 1)>>,
     <<Step(ANIMATIONS[9], emotionMap[7].emotion, Down, 0), Step(ANIMATIONS[14], <<>>, <<>>, 0)>>,
     <<Step(ANIMATIONS[15], <<>>, Away, 1)>>}

ReconnectDelay == 1

\* connectToGodot (lines 75-103; part_000 lines 52-72): a new socket
\* replaces godotSocket
ConnectToGodot ==
    LET s == nFSock + 1 IN
    /\ nFSock < MaxFSockets
    /\ nFSock' = s
    /\ godotSocket' = s
    /\ fsockets' = [fsockets EXCEPT ![s] = "CONNECTING"]

\* main (lines 325-341; part_000 lines 290-298) starts the server
Main ==
    /\ nFSock = 0
    /\ ConnectToGodot
    /\ UNCHANGED <<variant, socketReady, reconnectTimer, toolCalls, sentLog>>
    /\ UNCHANGED managerVars

\* the "open" handler (lines 81-84)
FSocketOpen(s) ==
    /\ fsockets[s] = "CONNECTING"
    /\ fsockets' = [fsockets EXCEPT ![s] = "OPEN"]
    /\ socketReady' = TRUE
    /\ UNCHANGED <<variant, godotSocket, nFSock, reconnectTimer, toolCalls, sentLog>>
    /\ UNCHANGED managerVars

\* the peer starts closing: readyState is CLOSING before "close" is emitted
FPeerClosing(s) ==
    /\ fsockets[s] = "OPEN"
    /\ fsockets' = [fsockets EXCEPT ![s] = "CLOSING"]
    /\ UNCHANGED <<variant, godotSocket, socketReady, nFSock, reconnectTimer, toolCalls, sentLog>>
    /\ UNCHANGED managerVars

\* the "error" handler (lines 92-95): a failed connect or a broken link;
\* the socket emits "close" next
FSocketError(s) ==
    /\ fsockets[s] \in {"CONNECTING", "OPEN"}
    /\ fsockets' = [fsockets EXCEPT ![s] = "FAILED"]
    /\ socketReady' = FALSE
    /\ UNCHANGED <<variant, godotSocket, nFSock, reconnectTimer, toolCalls, sentLog>>
    /\ UNCHANGED managerVars

\* what the close handler does about reconnecting: index.ts (lines 86-90)
\* nothing, part_000 (line 65) setTimeout(connectToGodot, 5000)
CloseHandlerTimer(v, tm) == IF v = "js" THEN ReconnectDelay ELSE tm

\* the "close" handler (lines 86-90; part_000 lines 62-66)
FSocketClose(s) ==
    /\ fsockets[s] \in {"OPEN", "CLOSING", "FAILED"}
    /\ fsockets' = [fsockets EXCEPT ![s] = "CLOSED"]
    /\ socketReady' = FALSE
    /\ reconnectTimer' = CloseHandlerTimer(variant, reconnectTimer)
    /\ UNCHANGED <<variant, godotSocket, nFSock, toolCalls, sentLog>>
    /\ UNCHANGED managerVars

\* the reconnect timer of part_000 (line 65) is due
ReconnectFires ==
    /\ reconnectTimer = 0
    /\ reconnectTimer' = NoTimer
    /\ ConnectToGodot
    /\ UNCHANGED <<variant, socketReady, toolCalls, sentLog>>
    /\ UNCHANGED managerVars

(***************************************************************************)
(* sendToGodot (lines 106-115; part_000 lines 75-82) and the tool handlers. *)
(***************************************************************************)
\* what a call of sendToGodot can do in the current state: throw the error
\* of line 108, write the command, or, when socketReady still holds on a
\* socket that is no longer open, what the socket library does with send():
\* throw, or drop the data without an error
SendOutcomes ==
    IF ~socketReady \/ godotSocket = NULL THEN {"NotConnected"}
    ELSE IF fsockets[godotSocket] = "OPEN" THEN {"written"}
    ELSE {"NotOpen", "dropped"}

Throws(o) == o \in {"NotConnected", "NotOpen"}

ErrorMessage(o) ==
    IF o = "NotConnected" THEN "WebSocket not connected to Godot" ELSE "WebSocket is not open"

\* step.emotion || "neutral", step.lookAt || "user" (lines 293-297)
StepCommand(st) ==
    Command(st.clip,
            IF st.emotion = <<>> THEN Neutral ELSE st.emotion,
            IF st.lookAt = <<>> THEN User ELSE st.lookAt)

LogEntry(t, k, cmd, w) == [tool |-> t, step |-> k, cmd |-> cmd, waited |-> w]

Sent(log, o, e) == IF o = "written" THEN Append(log, e) ELSE log

\* the return of the try block
Returned(tc, phrase, cmds) ==
    [tc EXCEPT !.pc = "done", !.ended = "returned", !.timer = NoTimer,
               !.result = [isError |-> FALSE, status |-> phrase, message |-> "",
                           step |-> 0, commands |-> cmds]]

\* the error leaves the handler
HandlerRethrows(tc, o, k) ==
    [tc EXCEPT !.pc = "done", !.ended = "thrown", !.timer = NoTimer,
               !.threw = TRUE, !.failedStep = k]

\* the catch block of a handler (lines 209-219, 249-259, 312-322):
\* text `Error: ${message}`, isError: true
HandlerCatch(tc, o, k) ==
    [tc EXCEPT !.pc = "done", !.ended = "returned", !.timer = NoTimer,
               !.threw = TRUE, !.failedStep = k,
               !.result = [isError |-> TRUE, status |-> "Error", message |-> ErrorMessage(o),
                           step |-> 0, commands |-> <<>>]]

\* a handler that sends one command (control_avatar, animate_from_text)
SendOne(t, tc, cmd, phrase, o) ==
    /\ toolCalls' = [toolCalls EXCEPT ![t] =
                        IF Throws(o) THEN HandlerCatch(tc, o, 1)
                        ELSE Returned(tc, phrase, <<cmd>>)]
    /\ sentLog' = IF Throws(o) THEN sentLog ELSE Sent(sentLog, o, LogEntry(t, 1, cmd, 0))

\* calls are made in the order of their numbers, once the server runs
MayStartTool(t) ==
    /\ nFSock > 0
    /\ toolCalls[t].pc = "idle"
    /\ IF t = 1 THEN TRUE ELSE toolCalls[t - 1].kind # "none"

\* control_avatar (lines 187-219)
ControlAvatar(t, cmd, o) ==
    /\ MayStartTool(t)
    /\ o \in SendOutcomes
    /\ SendOne(t, [toolCalls[t] EXCEPT !.kind = "control_avatar"], cmd, "Avatar updated", o)
    /\ UNCHANGED <<variant, godotSocket, socketReady, fsockets, nFSock, reconnectTimer>>
    /\ UNCHANGED managerVars

\* animate_from_text (lines 235-259)
AnimateFromText(t, text, o) ==
    /\ MayStartTool(t)
    /\ o \in SendOutcomes
    /\ SendOne(t, [toolCalls[t] EXCEPT !.kind = "animate_from_text", !.text = text],
               ParseIntent(text), "Interpreted", o)
    /\ UNCHANGED <<variant, godotSocket, socketReady, fsockets, nFSock, reconnectTimer>>
    /\ UNCHANGED managerVars

\* the loop of sequence_animations (lines 288-300) from step k on, until it
\* ends, throws or suspends at the delay of a step; resumed: the delay of
\* step k has just elapsed
RECURSIVE RunSequence(_, _, _, _, _, _)
RunSequence(t, tc, k, log, o, resumed) ==
    IF k > Len(tc.steps)
    THEN [tool |-> Returned(tc, "Executed animation sequence", tc.results), log |-> log]
    ELSE IF tc.steps[k].delay # 0 /\ ~resumed
    THEN [tool |-> [tc EXCEPT !.pc = "waiting", !.step = k, !.timer = tc.steps[k].delay],
          log |-> log]
    ELSE IF Throws(o)
    THEN [tool |-> HandlerCatch([tc EXCEPT !.step = k], o, k), log |-> log]
    ELSE LET cmd == StepCommand(tc.steps[k]) IN
         RunSequence(t,
                     [tc EXCEPT !.step = k, !.waited = 0, !.results = Append(@, cmd)],
                     k + 1, Sent(log, o, LogEntry(t, k, cmd, tc.waited)), o, FALSE)

\* sequence_animations (lines 284-322; part_000 lines 248-287) is called
SequenceAnimations(t, steps, o) ==
    /\ MayStartTool(t)
    /\ o \in SendOutcomes
    /\ LET r == RunSequence(t, [toolCalls[t] EXCEPT !.kind = "sequence_animations",
                                                    !.steps = steps],
                            1, sentLog, o, FALSE)
       IN  /\ toolCalls' = [toolCalls EXCEPT ![t] = r.tool]
           /\ sentLog' = r.log
    /\ UNCHANGED <<variant, godotSocket, socketReady, fsockets, nFSock, reconnectTimer>>
    /\ UNCHANGED managerVars

\* the delay of a step (line 290) has elapsed: the loop goes on
SequenceDelayFires(t, o) ==
    /\ toolCalls[t].pc = "waiting"
    /\ toolCalls[t].timer = 0
    /\ o \in SendOutcomes
    /\ LET r == RunSequence(t, [toolCalls[t] EXCEPT !.pc = "running", !.timer = NoTimer],
                            toolCalls[t].step, sentLog, o, TRUE)
       IN  /\ toolCalls' = [toolCalls EXCEPT ![t] = r.tool]
           /\ sentLog' = r.log
    /\ UNCHANGED <<variant, godotSocket, socketReady, fsockets, nFSock, reconnectTimer>>
    /\ UNCHANGED managerVars

\* one unit of time passes for the timers of the tool server
FArmed == {reconnectTimer} \cup {toolCalls[t].timer : t \in ToolCalls}

FTick ==
    /\ 0 \notin FArmed
    /\ FArmed # {NoTimer}
    /\ reconnectTimer' = Pass(reconnectTimer)
    /\ toolCalls' = [t \in ToolCalls |->
                       [toolCalls[t] EXCEPT !.timer = Pass(@),
                                            !.waited = IF toolCalls[t].pc = "waiting"
                                                       THEN @ + 1 ELSE @]]
    /\ UNCHANGED <<variant, godotSocket, socketReady, fsockets, nFSock, sentLog>>
    /\ UNCHANGED managerVars

FacadeInit ==
    /\ InitManager
    /\ last = Unobserved
    /\ variant \in {"ts", "js"}
    /\ godotSocket = NULL
    /\ socketReady = FALSE
    /\ fsockets = [s \in FSockets |-> "NONE"]
    /\ nFSock = 0
    /\ reconnectTimer = NoTimer
    /\ toolCalls = [t \in ToolCalls |-> NoTool]
    /\ sentLog = <<>>

FacadeNext ==
    \/ Main
    \/ \E s \in FSockets : FSocketOpen(s)
    \/ \E s \in FSockets : FPeerClosing(s)
    \/ \E s \in FSockets : FSocketError(s)
    \/ \E s \in FSockets : FSocketClose(s)
    \/ ReconnectFires
    \/ \E t \in ToolCalls, cmd \in Commands, o \in {"NotConnected", "written", "NotOpen", "dropped"} :
          ControlAvatar(t, cmd, o)
    \/ \E t \in ToolCalls, text \in Texts, o \in {"NotConnected", "written", "NotOpen", "dropped"} :
          AnimateFromText(t, text, o)
    \/ \E t \in ToolCalls, steps \in Sequences, o \in {"NotConnected", "written", "NotOpen", "dropped"} :
          SequenceAnimations(t, steps, o)
    \/ \E t \in ToolCalls, o \in {"NotConnected", "written", "NotOpen", "dropped"} :
          SequenceDelayFires(t, o)
    \/ FTick

FacadeSpec == FacadeInit /\ [][FacadeNext]_vars

(***************************************************************************)
(* Properties.                                                             *)
(***************************************************************************)
Outstanding(c) == calls[c].pc = "pending"

Written(id) == \E s \in Sockets : <<s, id>> \in written

\* C1: every sendCommand that registered a request is settled exactly once
\* and its table entry is removed exactly once: while it is outstanding its
\* entry is in the table and nothing has settled or removed it; afterwards
\* the entry is gone, one settlement and one removal have happened, and a
\* request that was written ended by exactly one of response, timeout and
\* connection close.
C1_SettledExactlyOnce ==
    \A c \in Calls :
        calls[c].cmd # NoCommand =>
            LET id == calls[c].cmd IN
            \/ /\ calls[c].pc = "pending"
               /\ id \in DOMAIN commandQueue
               /\ commandQueue[id] = c
               /\ calls[c].settles = 0
               /\ removals[id] = 0
            \/ /\ calls[c].pc = "done"
               /\ id \notin DOMAIN commandQueue
               /\ calls[c].settles = 1
               /\ removals[id] = 1
               /\ IF Written(id)
                  THEN calls[c].outcome \in {"Success", "RemoteError", "Timeout",
                                             "ConnectionLost"}
                  ELSE calls[c].outcome = "NotConnected"

\* two overlapping requests, the younger one timed out while the older one
\* is still outstanding
C1_Witness ==
    \E c1, c2 \in Calls :
        /\ calls[c1].outcome = "Timeout" /\ calls[c1].settles = 1
        /\ removals[calls[c1].cmd] = 1
        /\ Outstanding(c2)
        /\ calls[c2].cmd < calls[c1].cmd

\* C2: when disconnect() returns, the Pending Request Table is empty.
C2_DisconnectEmptiesTable ==
    last.op = "disconnect" => DOMAIN commandQueue = {}

\* C3: an attempt that has not reached Open is failed within a bounded wait:
\* a connect() call that still awaits an attempt always has that attempt's
\* timer armed, whatever the socket did before it opened.
C3_PendingAttemptIsTimed ==
    \A c \in Calls : calls[c].pc = "attempt" => TimerArmedFor(c)

\* C4: when every attempt fails, connect() makes exactly maxRetries + 1
\* attempts and then fails: once nothing is left to happen (no timer armed,
\* every socket closed), a connect loop that never reached Open has failed
\* with ConnectionFailed after exactly maxRetries + 1 attempts.
Quiescent ==
    /\ Armed = {NoTimer}
    /\ \A s \in Sockets : sockets[s].state \in {"NONE", "CLOSED"}

C4_ExactlyMaxRetriesPlusOne ==
    Quiescent =>
        \A c \in Calls :
            calls[c].attempts > 0 =>
                /\ calls[c].outcome = "ConnectionFailed"
                /\ calls[c].attempts = maxRetries + 1

\* C5: at most one socket of the manager is connecting or open at any time.
Live == {s \in Sockets : sockets[s].state \in {"CONNECTING", "OPEN"}}

C5_AtMostOneLiveSocket == Cardinality(Live) <= 1

\* C6: a request fails with Timeout exactly when its per-command timeout
\* has elapsed since it was registered: never before, and it is never still
\* outstanding after that.
C6_TimeoutAtDeadline ==
    \A c \in Calls :
        /\ calls[c].outcome = "Timeout" => calls[c].elapsed = timeout
        /\ Outstanding(c) => calls[c].elapsed <= timeout
        /\ (Outstanding(c) /\ calls[c].elapsed = timeout) => cmdTimer[calls[c].cmd] = 0

\* a request was written to an open socket and timed out
C6_Witness ==
    \E c \in Calls :
        /\ calls[c].outcome = "Timeout"
        /\ calls[c].elapsed = timeout
        /\ Written(calls[c].cmd)

\* C7: the identifiers of the outstanding requests are pairwise distinct,
\* each outstanding request is the entry of its identifier, and the next
\* identifier to be allocated is not the identifier of an outstanding request.
C7_DistinctIds ==
    /\ \A c1, c2 \in Calls :
          (Outstanding(c1) /\ Outstanding(c2) /\ c1 # c2) => calls[c1].cmd # calls[c2].cmd
    /\ \A c \in Calls :
          Outstanding(c) => /\ calls[c].cmd \in DOMAIN commandQueue
                            /\ commandQueue[calls[c].cmd] = c
                            /\ calls[c].cmd # commandId
    /\ commandId \notin DOMAIN commandQueue

\* two requests of overlapping sendCommand calls are outstanding at once
C7_Witness ==
    \E c1, c2 \in Calls :
        /\ c1 # c2
        /\ Outstanding(c1) /\ Outstanding(c2)
        /\ {calls[c1].cmd, calls[c2].cmd} \subseteq DOMAIN commandQueue

\* C8: a response bearing identifier X settles exactly the request
\* registered under X, with the result payload on success and with
\* RemoteError and the remote message on error, removes exactly that entry
\* and its timer, and leaves every other request, entry and timer untouched.
C8_ResponseSettlesItsRequest ==
    [][last'.op = "matched" =>
          LET id == last'.id IN
          /\ id \in DOMAIN commandQueue
          /\ LET c == commandQueue[id] IN
             /\ calls[c].cmd = id
             /\ calls'[c].pc = "done"
             /\ calls'[c].settles = 1
             /\ calls'[c].outcome =
                   (IF last'.status = "success" THEN "Success" ELSE "RemoteError")
             /\ (last'.status = "success" \/ last'.body # "") =>
                   calls'[c].value = last'.body
             /\ DOMAIN commandQueue' = (DOMAIN commandQueue) \ {id}
             /\ cmdTimer'[id] = NoTimer
             /\ \A c2 \in Calls \ {c} : calls'[c2] = calls[c2]
             /\ \A i \in (DOMAIN commandQueue) \ {id} :
                   /\ commandQueue'[i] = commandQueue[i]
                   /\ cmdTimer'[i] = cmdTimer[i]
      ]_vars

\* the response to the younger request arrived while the older request is
\* still outstanding
C8_Witness ==
    \E c1, c2 \in Calls :
        /\ calls[c1].outcome \in {"Success", "RemoteError"}
        /\ calls[c1].value = "b"
        /\ Outstanding(c2)
        /\ calls[c2].cmd < calls[c1].cmd

\* C9: a payload that does not parse changes nothing: table, timers,
\* requests, sockets and connection state are as before.
ManagerState == <<ws, connected, commandQueue, commandId, cmdTimer, sockets, calls,
                  removals, written>>

C9_MalformedIgnored ==
    [][last'.op = "malformed" => UNCHANGED ManagerState]_vars

\* a payload that does not parse was dispatched while a request was outstanding
C9_Witness ==
    /\ last.op = "malformed"
    /\ DOMAIN commandQueue # {}

\* C10: a well-formed message without identifier, or with an identifier
\* that matches no entry, is discarded: nothing changes, and a request that
\* is settled is never settled again.
C10_UnmatchedDiscarded ==
    [][/\ last'.op \in {"noId", "unmatched"} =>
             /\ last'.id = NoId \/ last'.id \notin DOMAIN commandQueue
             /\ UNCHANGED ManagerState
       /\ \A c \in Calls : calls[c].pc = "done" => calls'[c] = calls[c]
      ]_vars

\* the response to a request arrived after the request had timed out, while
\* another request was outstanding
C10_Witness ==
    /\ last.op = "unmatched"
    /\ \E c \in Calls : calls[c].cmd = last.id /\ calls[c].outcome = "Timeout"
    /\ DOMAIN commandQueue # {}

\* C11: a sendCommand that had to connect first and whose connect() failed
\* fails with the connection error, and nothing was done for it: no
\* identifier allocated, no table entry, no timer, nothing written.  While
\* its connect loop runs, nothing has been registered for it either.
C11_FailedConnectSendsNothing ==
    \A c \in Calls :
        (calls[c].kind = "send" /\ calls[c].attempts > 0) =>
            /\ calls[c].cmd = NoCommand
            /\ c \notin Queued(commandQueue)
            /\ calls[c].pc \in {"attempt", "delay", "done"}
            /\ calls[c].pc = "done" =>
                  /\ calls[c].outcome = "ConnectionFailed"
                  /\ calls[c].settles = 1
                  /\ calls[c].attempts = maxRetries + 1

\* a sendCommand failed after its connect loop used up every attempt
C11_Witness ==
    \E c \in Calls :
        /\ calls[c].kind = "send"
        /\ calls[c].outcome = "ConnectionFailed"
        /\ calls[c].attempts = maxRetries + 1
        /\ calls[c].cmd = NoCommand

\* C12: whichever path made the manager Disconnected, a close event of a
\* socket or disconnect(), it is in the same clean state: the table is
\* empty, no command timer is armed, every registered request has been
\* failed, and the manager holds no open socket.
Disconnected == ~connected

C12_DisconnectedIsClean ==
    Disconnected =>
        /\ DOMAIN commandQueue = {}
        /\ \A i \in CommandIds : cmdTimer[i] = NoTimer
        /\ \A c \in Calls : ~Outstanding(c)
        /\ ~IsOpen(sockets, ws)

\* C13: when disconnect() returns, in whatever state it was called, the
\* manager is Disconnected: this.connected is false, no socket is held, no
\* command timer is armed and no connect loop is waiting to open a socket.
C13_DisconnectLeavesDisconnected ==
    last.op = "disconnect" =>
        /\ Disconnected
        /\ ws = NULL
        /\ \A i \in CommandIds : cmdTimer[i] = NoTimer
        /\ \A c \in Calls : calls[c].pc # "delay"

\* C14: Disconnected is re-connectable: a connect() or sendCommand made
\* while the manager is Disconnected starts a fresh attempt on a new socket,
\* and when the peer accepts that attempt (its socket opens) the manager is
\* connected again and a sendCommand that awaits the attempt is registered
\* and written to that socket.
C14_ReconnectDispatches ==
    [][/\ \A c \in Calls :
             (Disconnected /\ calls[c].pc = "idle" /\ calls'[c].pc # "idle") =>
                 /\ calls'[c].pc = "attempt"
                 /\ nSock' = nSock + 1
                 /\ ws' = nSock'
                 /\ sockets'[ws'].state = "CONNECTING"
       /\ \A s \in Sockets :
             (sockets[s].state = "CONNECTING" /\ sockets'[s].state = "OPEN") =>
                 LET c == sockets[s].awaiter IN
                 /\ connected'
                 /\ (c # 0 /\ calls[c].kind = "send") =>
                       /\ calls'[c].pc = "pending"
                       /\ <<s, calls'[c].cmd>> \in written'
      ]_vars

\* C15: the tool server reconnects by itself: once it has been started,
\* whenever its socket is closed (no socket of the server is connecting,
\* open or closing) a reconnection is scheduled.
FLive == {s \in FSockets : fsockets[s] \in {"CONNECTING", "OPEN", "CLOSING", "FAILED"}}

C15_ReconnectScheduled ==
    (nFSock > 0 /\ FLive = {}) => reconnectTimer # NoTimer

\* C16: the commands a sequence_animations call has written are its steps in
\* list order, each written when exactly the delay of its step had passed
\* since the step before it was written, and no command of another tool call
\* was written between two of them.
IsSequence(t) == toolCalls[t].kind = "sequence_animations"

C16_SequenceOrderedUninterrupted ==
    \A i, j \in DOMAIN sentLog :
        (i < j /\ sentLog[i].tool = sentLog[j].tool /\ IsSequence(sentLog[i].tool)) =>
            /\ sentLog[i].step < sentLog[j].step
            /\ sentLog[j].waited = toolCalls[sentLog[j].tool].steps[sentLog[j].step].delay
            /\ sentLog[i].waited = toolCalls[sentLog[i].tool].steps[sentLog[i].step].delay
            /\ \A k \in i..j : sentLog[k].tool = sentLog[i].tool

\* C17: when sendToGodot throws at step k of a sequence, no step from k on
\* is written, and the handler returns a result with the error flag whose
\* text gives the reason and names step k.
C17_FailureNamesStep ==
    \A t \in ToolCalls :
        (IsSequence(t) /\ toolCalls[t].threw) =>
            LET k == toolCalls[t].failedStep IN
            /\ \A i \in DOMAIN sentLog : sentLog[i].tool = t => sentLog[i].step < k
            /\ toolCalls[t].pc = "done"
            /\ toolCalls[t].result.isError
            /\ toolCalls[t].result.message # ""
            /\ toolCalls[t].result.step = k

\* C18: no tool call ends with an error thrown out of its handler: every
\* call that has ended returned a result; the result carries the error flag
\* and a non-empty message exactly when sendToGodot threw, and a status
\* phrase in either case.
C18_FailuresAreResults ==
    \A t \in ToolCalls :
        toolCalls[t].pc = "done" =>
            /\ toolCalls[t].ended = "returned"
            /\ toolCalls[t].result.isError = toolCalls[t].threw
            /\ toolCalls[t].result.status # ""
            /\ toolCalls[t].result.isError =>
                  /\ toolCalls[t].result.status = "Error"
                  /\ toolCalls[t].result.message # ""
            /\ ~toolCalls[t].result.isError => toolCalls[t].result.commands # <<>>

\* a sequence failed at its second step, and calls of the other two shapes
\* are covered by a failed single command
C18_Witness ==
    \E t1, t2 \in ToolCalls :
        /\ IsSequence(t1)
        /\ toolCalls[t1].failedStep = 2
        /\ toolCalls[t1].result.isError
        /\ toolCalls[t2].kind \in {"control_avatar", "animate_from_text"}
        /\ toolCalls[t2].result.isError

\* C19: parseIntent maps the three documented texts to the documented
\* commands: every command that animate_from_text wrote for one of them is
\* (wave, happy, user), (stand, neutral, user) and (idle, shy, away).
Documented(text) ==
    IF text = TextWave THEN Command(ANIMATIONS[2], emotionMap[1].emotion, User)
    ELSE IF text = TextStanding THEN Command(ANIMATIONS[8], Neutral, User)
    ELSE Command(Idle, emotionMap[7].emotion, Away)

C19_DocumentedExamples ==
    \A i \in DOMAIN sentLog :
        LET tc == toolCalls[sentLog[i].tool] IN
        (tc.kind = "animate_from_text" /\ tc.text \in {TextWave, TextStanding, TextShy}) =>
            sentLog[i].cmd = Documented(tc.text)

\* C20: getStatus() is a read-only snapshot: it changes nothing of the
\* manager, its pendingCommands is the number of requests registered and not
\* yet settled, and its connected is true only if this.connected holds and
\* the socket held is open.
C20_StatusIsSnapshot ==
    [][last'.op = "getStatus" =>
          /\ UNCHANGED ManagerState
          /\ last'.id = Cardinality({c \in Calls : Outstanding(c)})
          /\ last'.status = "connected" => (connected /\ IsOpen(sockets, ws))
      ]_vars

\* a snapshot taken with a request outstanding while this.connected still
\* holds on a socket that is no longer open
C20_Witness ==
    /\ last.op = "getStatus"
    /\ last.id > 0
    /\ last.status = "disconnected"
    /\ connected

\* C21: for every text given to animate_from_text, the command written has
\* as clip the first entry of ANIMATIONS that occurs in the lower-cased text
\* (idle if none), as emotion the first emotion of emotionMap one of whose
\* keywords occurs in it (neutral if none), as lookAt away if 'look away' or
\* 'don't look' occurs, else down if 'look down' occurs, else up if 'look up'
\* occurs, else user; and all three lie in ANIMATIONS, EMOTIONS, LOOK_TARGETS.
Range(seq) == {seq[i] : i \in DOMAIN seq}

HasKeyword(lower, i) == \E k \in DOMAIN emotionMap[i].keywords : Includes(lower, emotionMap[i].keywords[k])

C21_FirstMatchWins ==
    \A n \in DOMAIN sentLog :
        LET tc == toolCalls[sentLog[n].tool]
            cmd == sentLog[n].cmd
            lower == ToLowerCase(tc.text)
        IN  tc.kind = "animate_from_text" =>
            /\ \/ \E i \in DOMAIN ANIMATIONS :
                     /\ Includes(lower, ANIMATIONS[i])
                     /\ \A j \in 1..(i - 1) : ~Includes(lower, ANIMATIONS[j])
                     /\ cmd.clip = ANIMATIONS[i]
               \/ /\ \A i \in DOMAIN ANIMATIONS : ~Includes(lower, ANIMATIONS[i])
                  /\ cmd.clip = Idle
            /\ \/ \E i \in DOMAIN emotionMap :
                     /\ HasKeyword(lower, i)
                     /\ \A j \in 1..(i - 1) : ~HasKeyword(lower, j)
                     /\ cmd.emotion = emotionMap[i].emotion
               \/ /\ \A i \in DOMAIN emotionMap : ~HasKeyword(lower, i)
                  /\ cmd.emotion = Neutral
            /\ cmd.lookAt =
                  (IF Includes(lower, LookAway) \/ Includes(lower, DontLook) THEN Away
                   ELSE IF Includes(lower, LookDown) THEN Down
                   ELSE IF Includes(lower, LookUp) THEN Up
                   ELSE User)
            /\ cmd.clip \in Range(ANIMATIONS)
            /\ cmd.emotion \in Range(EMOTIONS)
            /\ cmd.lookAt \in Range(LOOK_TARGETS)

\* a text with two clips, keywords of two emotions and two gaze phrases
\* was interpreted and written
C21_Witness ==
    \E n \in DOMAIN sentLog :
        /\ toolCalls[sentLog[n].tool].kind = "animate_from_text"
        /\ toolCalls[sentLog[n].tool].text = TextMixed
        /\ sentLog[n].cmd = Command(ANIMATIONS[4], emotionMap[1].emotion, Down)

\* C22: the close event of a superseded socket (a socket that is no longer
\* this.ws) changes nothing for the current connection: a manager that is
\* Open stays Open, and the requests written to the current socket stay
\* outstanding.
C22_StaleCloseIsHarmless ==
    [][\A s \in Sockets :
          (sockets[s].state # "CLOSED" /\ sockets'[s].state = "CLOSED" /\ s # ws) =>
              /\ IsConnected => connected'
              /\ \A c \in Calls :
                    (Outstanding(c) /\ <<ws, calls[c].cmd>> \in written) =>
                        calls'[c] = calls[c]
      ]_vars

\* C23: after disconnect() has returned, unless a caller makes a new call,
\* the manager creates no socket and does not become connected: the step
\* that follows disconnect(), if it starts no call, leaves the number of
\* sockets created as it is and this.connected false.
C23_NoSocketAfterDisconnect ==
    [][(/\ last.op = "disconnect"
        /\ \A c \in Calls : calls[c].pc = "idle" => calls'[c].pc = "idle") =>
           /\ nSock' = nSock
           /\ ~connected'
      ]_vars

\* C24: whenever the table is not empty the manager is Open: this.connected
\* holds and this.ws is a socket that has not closed (open, or open and
\* being closed by the peer); so with no socket held, or not connected, no
\* request is outstanding.
C24_PendingImpliesOpen ==
    DOMAIN commandQueue # {} =>
        /\ connected
        /\ ws # NULL
        /\ sockets[ws].state \in {"OPEN", "CLOSING"}

\* C25: the armed command timers are exactly those of the identifiers in
\* the table, and a call whose request is settled has no timer armed.
C25_TimersMatchTable ==
    /\ \A i \in CommandIds : cmdTimer[i] # NoTimer <=> i \in DOMAIN commandQueue
    /\ \A c \in Calls :
          (calls[c].cmd # NoCommand /\ calls[c].pc = "done") => cmdTimer[calls[c].cmd] = NoTimer

\* one request ended by a response and another by a purge (close event or
\* disconnect()), both with their timers cancelled
C25_Witness ==
    \E c1, c2 \in Calls :
        /\ calls[c1].outcome \in {"Success", "RemoteError"}
        /\ calls[c2].outcome = "ConnectionLost"
        /\ cmdTimer[calls[c1].cmd] = NoTimer
        /\ cmdTimer[calls[c2].cmd] = NoTimer

=============================================================================
